---- MODULE Spec2Model ----
(***************************************************************************)
(* Model of the MCP smart proxy's registry/router (internal/proxy/proxy.go:*)
(* SmartProxy and the stdio client it drives).  Threads are the goroutines *)
(* of the HTTP handlers calling the proxy's methods; processes are the     *)
(* provider subprocesses spawned by NewStdioClient.                        *)
(***************************************************************************)
EXTENDS Integers, Sequences, FiniteSets, TLC

\* ---------------------------------------------------------------- bounds
NThreads == 2
MaxOps == 3
MaxProcs == 2

Threads == 1..NThreads

\* ------------------------------------------------------- configuration
\* config.MCPServers: the configured provider names.
Servers == {"a", "b"}

\* The tool names a provider's tools/list response carries, in order.
ToolsOf(s) == IF s = "a" THEN <<"alpha", "shared">> ELSE <<"beta", "shared">>

\* Tool names a caller may pass to UseTool ("ghost" is offered by nobody).
ToolArgs == {"alpha", "beta", "shared", "ghost"}

NoServer == "-"
NoProc == 0

\* ------------------------------------------------------------ go maps
\* make(map[...]...): the empty map.
EmptyMap == [x \in {} |-> x]

\* A store that keeps the entry a key already has.
PutIfAbsent(m, k, v) ==
  [x \in (DOMAIN m) \cup {k} |-> IF x \in DOMAIN m THEN m[x] ELSE v]

\* m[k] = v
Put(m, k, v) == [x \in (DOMAIN m) \cup {k} |-> IF x = k THEN v ELSE m[x]]

\* delete(m, k)
Delete(m, k) == [x \in (DOMAIN m) \ {k} |-> m[x]]

VARIABLES
  Tools,      \* toolCache.Tools: tool name -> descriptor
  ServerMap,  \* toolCache.ServerMap: tool name -> server name
  LastSync,   \* toolCache.LastSync, as the number of completed passes
  clients,    \* p.clients: server name -> process (its StdioClient)
  mu,         \* p.mu: the writer holding it (0: none) and the readers
  procs,      \* every process spawned so far, by process number
  pc,         \* each goroutine slot's position
  op,         \* the method each thread is in (or was last in)
  arg,        \* UseTool's toolName
  todo,       \* discoverAllTools: servers the range loop has not visited
  cur,        \* discoverAllTools: serverName of the current iteration
  newc,       \* discoverAllTools: client of the current iteration
  idx,        \* discoverAllTools: position in the tools being cached
  serverName, \* UseTool: the owner read from ServerMap
  client,     \* UseTool: the client read from p.clients
  res,        \* what each thread's last call returned
  okS,        \* history: servers that succeeded in the thread's pass
  failS,      \* history: servers that failed in the thread's pass
  merged,     \* history: servers merged in the thread's pass, in order
  afterErr,   \* history: UseTool wrote its request to a session that had
              \* already answered a call with an error response
  published,  \* history: the catalog as of the last completed pass
  started,    \* number of calls made so far
  fn,         \* the helper function last applied on its own ("none": none)
  fin,        \* the input it was applied to
  fout,       \* what it returned
  availTools  \* DiscoverTools: availableTools, its copy of the catalog

vars == <<Tools, ServerMap, LastSync, clients, mu, procs, pc, op, arg, todo,
          cur, newc, idx, serverName, client, res, okS, failS, merged,
          afterErr, published, started, fn, fin, fout, availTools>>

discLocals == <<todo, cur, newc, idx, okS, failS, merged>>
useLocals == <<arg, serverName, client, afterErr>>
catalog == <<Tools, ServerMap, LastSync, published>>
fnVars == <<fn, fin, fout>>
notDiscovering == <<fnVars, availTools>>

\* ------------------------------------------------------- stdio client
\* A JSON-RPC request line written to a process's stdin.
Request(id, method, th, tool) ==
  [id |-> id, method |-> method, th |-> th, tool |-> tool]

\* NewStdioClient after cmd.Start: pipes open, process running, and the
\* initialize request (id 1) written by initialize().  hung: the process has
\* stopped answering (it writes no further line and does not exit).  erred
\* (history): the process has answered a tools/call with an error response.
\* ready (history): NewStdioClient has returned the client.
SpawnedProc(s, th) ==
  [server |-> s, stdin |-> TRUE, stdout |-> TRUE, running |-> TRUE,
   hung |-> FALSE, erred |-> FALSE, ready |-> FALSE,
   pending |-> <<Request(1, "initialize", th, "")>>]

\* A Close that does nothing for a client whose initialize never finished.
ClientCloseReadyOnly(pr) ==
  IF pr.ready
    THEN [pr EXCEPT !.stdin = FALSE, !.stdout = FALSE, !.running = FALSE,
                    !.hung = FALSE, !.erred = FALSE, !.pending = <<>>]
    ELSE pr

\* StdioClient.Close: both pipes closed, the process killed.
ClientClose(pr) ==
  [pr EXCEPT !.stdin = FALSE, !.stdout = FALSE, !.running = FALSE,
             !.hung = FALSE, !.erred = FALSE, !.pending = <<>>]

\* sendRequest: one line appended to the process's input.
SendRequest(pr, req) == [pr EXCEPT !.pending = Append(@, req)]

\* readResponse: the scanner consumes the next response line.
ConsumeLine(pr) == [pr EXCEPT !.pending = Tail(@)]

IsOpen(pr) == pr.stdin /\ pr.stdout /\ pr.running

\* reader.Scan() returns: the process answers (a line comes) or has exited
\* (end of file).  On a process that does neither, Scan blocks: readResponse
\* takes no context and sets no deadline.
ScanReturns(pr) == ~pr.hung

\* The loop "for _, client := range p.clients { client.Close() }".
CloseAllClients ==
  [p \in DOMAIN procs |->
     IF \E s \in DOMAIN clients : clients[s] = p
       THEN ClientClose(procs[p]) ELSE procs[p]]

\* ------------------------------------------------------------- results
NoRes == [op |-> "none", kind |-> "none"]
Ret(o, kind) == [op |-> o, kind |-> kind]

\* ------------------------------------------------------------- locking
\* p.mu.Lock() can be taken: no writer and no reader holds the mutex.
CanLock == mu.writer = 0 /\ mu.readers = {}

\* A read lock that does not wait for the writer.
CanRLockAlways == TRUE

\* p.mu.RLock() can be taken: no writer holds the mutex.
CanRLock == mu.writer = 0

Init ==
  /\ Tools = EmptyMap
  /\ ServerMap = EmptyMap
  /\ LastSync = 0
  /\ clients = EmptyMap
  /\ mu = [writer |-> 0, readers |-> {}]
  /\ procs = <<>>
  /\ pc = [th \in Threads |-> "idle"]
  /\ op = [th \in Threads |-> "none"]
  /\ arg = [th \in Threads |-> ""]
  /\ todo = [th \in Threads |-> {}]
  /\ cur = [th \in Threads |-> NoServer]
  /\ newc = [th \in Threads |-> NoProc]
  /\ idx = [th \in Threads |-> 0]
  /\ serverName = [th \in Threads |-> NoServer]
  /\ client = [th \in Threads |-> NoProc]
  /\ res = [th \in Threads |-> NoRes]
  /\ okS = [th \in Threads |-> {}]
  /\ failS = [th \in Threads |-> {}]
  /\ merged = [th \in Threads |-> <<>>]
  /\ afterErr = [th \in Threads |-> FALSE]
  /\ published = EmptyMap
  /\ started = 0
  /\ fn = "none"
  /\ fin = <<>>
  /\ fout = <<>>
  /\ availTools = [th \in Threads |-> EmptyMap]

\* A call is made: the handler's goroutine takes the first free slot, and
\* the call budget is not spent.
Begin(th) ==
  /\ pc[th] = "idle"
  /\ \A u \in Threads : u < th => pc[u] # "idle"
  /\ started < MaxOps
  /\ started' = started + 1

\* ------------------------------------------------- discoverAllTools
\* discoverAllTools takes the write lock (p.mu.Lock, released by defer) and
\* starts its range loop over config.MCPServers.
DiscoverLock(th) ==
  /\ pc[th] = "d_lock"
  /\ CanLock
  /\ mu' = [mu EXCEPT !.writer = th]
  /\ pc' = [pc EXCEPT ![th] = "d_loop"]
  /\ todo' = [todo EXCEPT ![th] = Servers]
  /\ okS' = [okS EXCEPT ![th] = {}]
  /\ failS' = [failS EXCEPT ![th] = {}]
  /\ merged' = [merged EXCEPT ![th] = <<>>]
  /\ UNCHANGED <<catalog, clients, procs, op, cur, newc, idx, useLocals, res,
                 started>>
  /\ UNCHANGED notDiscovering

\* Initialize: calls discoverAllTools.
Initialize(th) ==
  /\ Begin(th)
  /\ op' = [op EXCEPT ![th] = "Initialize"]
  /\ pc' = [pc EXCEPT ![th] = "d_lock"]
  /\ res' = [res EXCEPT ![th] = NoRes]
  /\ UNCHANGED <<catalog, clients, mu, procs, discLocals, useLocals>>
  /\ UNCHANGED notDiscovering

\* A closed client nothing refers to any more is garbage: its process number
\* can name the next process.
Reusable(p) ==
  /\ ~procs[p].stdin /\ ~procs[p].stdout /\ ~procs[p].running
  /\ \A s \in DOMAIN clients : clients[s] # p
  /\ \A th \in Threads : newc[th] # p /\ client[th] # p

\* The number the next process gets.
NextProc ==
  IF \E p \in DOMAIN procs : Reusable(p)
    THEN CHOOSE p \in DOMAIN procs :
           Reusable(p) /\ \A q \in DOMAIN procs : Reusable(q) => p <= q
    ELSE Len(procs) + 1

\* One iteration of the range loop starts (Go visits the map's keys in any
\* order): NewStdioClient either fails to start the process (the server is
\* skipped), or starts it and writes the initialize request.
Connect(th) ==
  /\ pc[th] = "d_loop"
  /\ \E s \in todo[th] :
       /\ todo' = [todo EXCEPT ![th] = @ \ {s}]
       /\ \/ /\ failS' = [failS EXCEPT ![th] = @ \cup {s}]
             /\ UNCHANGED <<procs, pc, cur, newc>>
          \/ /\ NextProc <= MaxProcs
             /\ procs' = [p \in 1..(IF NextProc > Len(procs)
                                      THEN NextProc ELSE Len(procs)) |->
                            IF p = NextProc THEN SpawnedProc(s, th)
                                            ELSE procs[p]]
             /\ newc' = [newc EXCEPT ![th] = NextProc]
             /\ cur' = [cur EXCEPT ![th] = s]
             /\ pc' = [pc EXCEPT ![th] = "d_handshake"]
             /\ UNCHANGED failS
  /\ UNCHANGED <<catalog, clients, mu, op, idx, okS, merged, useLocals, res,
                 started>>
  /\ UNCHANGED notDiscovering

\* A NewStdioClient that returns initialize's error without closing.
InitializeFailedNoClose(pr) == pr

\* NewStdioClient when initialize fails: client.Close(), then the error.
InitializeFailed(pr) == ClientClose(pr)

\* initialize reads the handshake response.  A line that parses: NewStdioClient
\* returns the client, discoverAllTools stores it in p.clients and ListTools
\* writes the tools/list request (id 2).  No line, or one that does not
\* parse: NewStdioClient closes the client and the server is skipped.
Handshake(th) ==
  /\ pc[th] = "d_handshake"
  /\ ScanReturns(procs[newc[th]])
  /\ LET p == newc[th] IN
     \/ /\ procs[p].running
        /\ procs' = [procs EXCEPT ![p] =
                       SendRequest([ConsumeLine(@) EXCEPT !.ready = TRUE],
                                   Request(2, "tools/list", th, ""))]
        /\ clients' = Put(clients, cur[th], p)
        /\ pc' = [pc EXCEPT ![th] = "d_list"]
        /\ UNCHANGED <<cur, newc, failS>>
     \/ /\ procs' = [procs EXCEPT ![p] = InitializeFailed(@)]
        /\ failS' = [failS EXCEPT ![th] = @ \cup {cur[th]}]
        /\ cur' = [cur EXCEPT ![th] = NoServer]
        /\ newc' = [newc EXCEPT ![th] = NoProc]
        /\ pc' = [pc EXCEPT ![th] = "d_loop"]
        /\ UNCHANGED clients
  /\ UNCHANGED <<catalog, mu, op, todo, idx, okS, merged, useLocals, res,
                 started>>
  /\ UNCHANGED notDiscovering

\* client.ListTools reads the tools/list response.  A well-formed one: the
\* loop caching its tools starts.  Otherwise the client is closed and removed
\* from p.clients.
ListRead(th) ==
  /\ pc[th] = "d_list"
  /\ ScanReturns(procs[newc[th]])
  /\ LET p == newc[th] IN
     \/ /\ procs[p].running
        /\ procs' = [procs EXCEPT ![p] = ConsumeLine(@)]
        /\ idx' = [idx EXCEPT ![th] = 1]
        /\ pc' = [pc EXCEPT ![th] = "d_cache"]
        /\ UNCHANGED <<clients, cur, newc, failS>>
     \/ /\ procs' = [procs EXCEPT ![p] = ClientClose(@)]
        /\ clients' = Delete(clients, cur[th])
        /\ failS' = [failS EXCEPT ![th] = @ \cup {cur[th]}]
        /\ cur' = [cur EXCEPT ![th] = NoServer]
        /\ newc' = [newc EXCEPT ![th] = NoProc]
        /\ pc' = [pc EXCEPT ![th] = "d_loop"]
        /\ UNCHANGED idx
  /\ UNCHANGED <<catalog, mu, op, todo, okS, merged, useLocals, res, started>>
  /\ UNCHANGED notDiscovering

\* A descriptor cached as the provider sent it, with no owner set.
DescriptorUntagged(name, s) == [Name |-> name, ServerName |-> ""]

\* The descriptor cached for a tool: tool.ServerName = serverName.
Descriptor(name, s) == [Name |-> name, ServerName |-> s]

\* p.toolCache.Tools[tool.Name] = tool
CacheTool(th) ==
  /\ pc[th] = "d_cache"
  /\ LET name == ToolsOf(cur[th])[idx[th]] IN
       Tools' = Put(Tools, name, Descriptor(name, cur[th]))
  /\ pc' = [pc EXCEPT ![th] = "d_cache2"]
  /\ UNCHANGED <<ServerMap, LastSync, published, clients, mu, procs, op,
                 discLocals, useLocals, res, started>>
  /\ UNCHANGED notDiscovering

\* p.toolCache.ServerMap[tool.Name] = serverName, and the next tool.
CacheOwner(th) ==
  /\ pc[th] = "d_cache2"
  /\ LET name == ToolsOf(cur[th])[idx[th]] IN
       ServerMap' = Put(ServerMap, name, cur[th])
  /\ IF idx[th] < Len(ToolsOf(cur[th]))
       THEN /\ idx' = [idx EXCEPT ![th] = @ + 1]
            /\ pc' = [pc EXCEPT ![th] = "d_cache"]
            /\ UNCHANGED <<cur, newc, okS, merged>>
       ELSE /\ idx' = [idx EXCEPT ![th] = 0]
            /\ okS' = [okS EXCEPT ![th] = @ \cup {cur[th]}]
            /\ merged' = [merged EXCEPT ![th] = Append(@, cur[th])]
            /\ cur' = [cur EXCEPT ![th] = NoServer]
            /\ newc' = [newc EXCEPT ![th] = NoProc]
            /\ pc' = [pc EXCEPT ![th] = "d_loop"]
  /\ UNCHANGED <<Tools, LastSync, published, clients, mu, procs, op, todo,
                 failS, useLocals, res, started>>
  /\ UNCHANGED notDiscovering

\* The loop is over: LastSync is set, the lock released, nil returned.
Finish(th) ==
  /\ pc[th] = "d_loop"
  /\ todo[th] = {}
  /\ LastSync' = LastSync + 1
  /\ published' = Tools
  /\ mu' = [mu EXCEPT !.writer = 0]
  /\ pc' = [pc EXCEPT ![th] = "idle"]
  /\ res' = [res EXCEPT ![th] = Ret(op[th], "nil")]
  /\ op' = [op EXCEPT ![th] = "none"]
  /\ okS' = [okS EXCEPT ![th] = {}]
  /\ failS' = [failS EXCEPT ![th] = {}]
  /\ merged' = [merged EXCEPT ![th] = <<>>]
  /\ UNCHANGED <<Tools, ServerMap, clients, procs, todo, cur, newc, idx,
                 useLocals, started>>
  /\ UNCHANGED notDiscovering

\* ----------------------------------------------------- RefreshTools
\* p.toolCache.Tools = make(map[string]types.Tool)
ResetTools == EmptyMap

\* A RefreshTools that forgets to replace ServerMap.
ResetServerMapKeep == ServerMap

\* p.toolCache.ServerMap = make(map[string]string)
ResetServerMap == EmptyMap

\* RefreshTools' first critical section: under the write lock every client in
\* p.clients is closed and the three maps are replaced by empty ones; the lock
\* is released and discoverAllTools is called.
RefreshTools(th) ==
  /\ Begin(th)
  /\ CanLock
  /\ op' = [op EXCEPT ![th] = "RefreshTools"]
  /\ procs' = CloseAllClients
  /\ clients' = EmptyMap
  /\ Tools' = ResetTools
  /\ ServerMap' = ResetServerMap
  /\ pc' = [pc EXCEPT ![th] = "d_lock"]
  /\ res' = [res EXCEPT ![th] = NoRes]
  /\ UNCHANGED <<LastSync, published, mu, discLocals, useLocals>>
  /\ UNCHANGED notDiscovering

\* ------------------------------------------------------------ Close
\* The orders in which a range loop may visit the keys S of a map.
Orders(S) ==
  {q \in [1..Cardinality(S) -> S] : \A i, j \in DOMAIN q : q[i] = q[j] => i = j}

\* The clients whose Close may return an error: cmd.Process.Kill() reports
\* one for a process that is already gone (whether it does depends on the
\* platform).
MayFailClose == {s \in DOMAIN clients : ~procs[clients[s]].running}

\* A loop that returns at the first client whose Close fails.
RECURSIVE CloseLoopAbort(_, _, _)
CloseLoopAbort(ps, q, E) ==
  IF q = <<>> THEN ps
  ELSE LET ps1 == [ps EXCEPT ![clients[Head(q)]] = ClientClose(@)] IN
         IF Head(q) \in E THEN ps1 ELSE CloseLoopAbort(ps1, Tail(q), E)

\* Close's loop over p.clients, visited in the order q: each client is
\* closed; an error (the clients of E return one) is logged and the loop
\* goes on.
RECURSIVE CloseLoop(_, _, _)
CloseLoop(ps, q, E) ==
  IF q = <<>> THEN ps
  ELSE CloseLoop([ps EXCEPT ![clients[Head(q)]] = ClientClose(@)], Tail(q), E)

\* What Close returned (always nil), with the servers it logged "Error
\* closing client" for and (history) those whose process it killed.
CloseRet(E) ==
  [op |-> "Close", kind |-> "nil", failed |-> E,
   killed |-> {s \in DOMAIN clients : procs[clients[s]].running}]

\* Close: under the write lock every client in p.clients is closed (a failed
\* close is logged); p.clients and the catalog are left as they are.
Close(th) ==
  /\ Begin(th)
  /\ CanLock
  /\ \E q \in Orders(DOMAIN clients) : \E E \in SUBSET MayFailClose :
       /\ procs' = CloseLoop(procs, q, E)
       /\ res' = [res EXCEPT ![th] = CloseRet(E)]
  /\ UNCHANGED <<catalog, clients, mu, pc, op, discLocals, useLocals>>
  /\ UNCHANGED notDiscovering

\* -------------------------------------------------------- ListTools
\* ListTools: under the read lock, every descriptor of toolCache.Tools.
ListTools(th) ==
  /\ Begin(th)
  /\ CanRLock
  /\ res' = [res EXCEPT ![th] =
               [op |-> "ListTools", kind |-> "tools",
                tools |-> {Tools[t] : t \in DOMAIN Tools}]]
  /\ UNCHANGED <<catalog, clients, mu, procs, pc, op, discLocals, useLocals>>
  /\ UNCHANGED notDiscovering

\* ---------------------------------------------------------- UseTool
\* What UseTool(toolName) returned: the error's kind, or "Result".
UseRet(t, kind) == [op |-> "UseTool", kind |-> kind]

\* A lookup that ignores "exists" and goes on with the zero value "".
ServerMapGetIgnoreExists(t) ==
  [v |-> IF t \in DOMAIN ServerMap THEN ServerMap[t] ELSE "", ok |-> TRUE]

\* serverName, exists := p.toolCache.ServerMap[toolName]
ServerMapGet(t) ==
  IF t \in DOMAIN ServerMap THEN [v |-> ServerMap[t], ok |-> TRUE]
                            ELSE [v |-> "", ok |-> FALSE]

\* A lookup that takes some client of p.clients, whatever its server.
ClientsGetAnyServer(s) ==
  IF DOMAIN clients # {}
    THEN [v |-> clients[CHOOSE x \in DOMAIN clients : TRUE], ok |-> TRUE]
    ELSE [v |-> NoProc, ok |-> FALSE]

\* client, exists := p.clients[serverName]
ClientsGet(s) ==
  IF s \in DOMAIN clients THEN [v |-> clients[s], ok |-> TRUE]
                          ELSE [v |-> NoProc, ok |-> FALSE]

\* UseTool's critical section, under the read lock: the owner of the tool and
\* the owner's client are looked up; a missing owner or a missing client is
\* an error returned at once.
UseTool(th, t) ==
  /\ Begin(th)
  /\ CanRLock
  /\ LET owner == ServerMapGet(t)
         c == ClientsGet(owner.v)
     IN
       IF ~owner.ok
         THEN /\ res' = [res EXCEPT ![th] = UseRet(t, "NotFound")]
              /\ UNCHANGED <<pc, op, useLocals>>
       ELSE IF ~c.ok
         THEN /\ res' = [res EXCEPT ![th] = UseRet(t, "Unavailable")]
              /\ UNCHANGED <<pc, op, useLocals>>
       ELSE /\ res' = [res EXCEPT ![th] = NoRes]
            /\ op' = [op EXCEPT ![th] = "UseTool"]
            /\ arg' = [arg EXCEPT ![th] = t]
            /\ serverName' = [serverName EXCEPT ![th] = owner.v]
            /\ client' = [client EXCEPT ![th] = c.v]
            /\ pc' = [pc EXCEPT ![th] = "u_send"]
            /\ UNCHANGED afterErr
  /\ UNCHANGED <<catalog, clients, mu, procs, discLocals>>
  /\ UNCHANGED notDiscovering

\* UseTool returns: the frame's locals are gone.
UseToolReturn(th) ==
  /\ pc' = [pc EXCEPT ![th] = "idle"]
  /\ op' = [op EXCEPT ![th] = "none"]
  /\ arg' = [arg EXCEPT ![th] = ""]
  /\ serverName' = [serverName EXCEPT ![th] = NoServer]
  /\ client' = [client EXCEPT ![th] = NoProc]
  /\ afterErr' = [afterErr EXCEPT ![th] = FALSE]

\* The tools/call request th's UseTool writes.
OwnRequest(th) == Request(3, "tools/call", th, arg[th])

\* CallTool writes the tools/call request (id 3); the write fails on a
\* closed pipe, or one whose process has exited, and UseTool returns the
\* wrapped error.
UseToolSend(th) ==
  /\ pc[th] = "u_send"
  /\ LET p == client[th] IN
       IF procs[p].stdin /\ procs[p].running
         THEN /\ procs' = [procs EXCEPT ![p] =
                     SendRequest(@, OwnRequest(th))]
              /\ pc' = [pc EXCEPT ![th] = "u_read"]
              /\ afterErr' = [afterErr EXCEPT ![th] = procs[p].erred]
              /\ UNCHANGED <<res, op, arg, serverName, client>>
         ELSE /\ res' = [res EXCEPT ![th] = UseRet(arg[th], "ExecFailed")]
              /\ UseToolReturn(th)
              /\ UNCHANGED procs
  /\ UNCHANGED <<catalog, clients, mu, discLocals, started>>
  /\ UNCHANGED notDiscovering

\* The response lines a provider may write to a tools/call request: one with
\* a result object, one with an error field, one that does not parse or
\* holds neither.
LineKinds == {"result", "error", "malformed"}

\* A CallTool that does not look at the error field.
CallToolReturnIgnoreError(k) ==
  IF k = "malformed" THEN "ExecFailed" ELSE "Result"

\* What CallTool makes of the line it read: an error field is a tool error,
\* a line that does not parse or holds no result object is an error too,
\* otherwise the result is returned.
CallToolReturn(k) ==
  IF k = "error" THEN "ToolError"
  ELSE IF k = "malformed" THEN "ExecFailed"
  ELSE "Result"

\* What UseTool returns after CallTool read a line of kind k written in
\* answer to request req: the result, or the error wrapping CallTool's
\* (which holds the error payload of the line).
CallRet(k, req) ==
  [op |-> "UseTool", kind |-> CallToolReturn(k), line |-> k,
   answers |-> [th |-> req.th, tool |-> req.tool]]

\* CallTool reads the next response line of the client (whichever request it
\* answers); on a closed pipe, or at the end of file an exited process
\* leaves, the scan fails.  With no line to read the caller waits.
UseToolRead(th) ==
  /\ pc[th] = "u_read"
  /\ LET p == client[th] IN
       \/ /\ ~procs[p].stdout \/ ~procs[p].running
          /\ res' = [res EXCEPT ![th] = UseRet(arg[th], "ExecFailed")]
          /\ UNCHANGED procs
       \/ /\ procs[p].stdout /\ procs[p].running
          /\ ScanReturns(procs[p])
          /\ procs[p].pending # <<>>
          /\ \E k \in LineKinds :
               /\ res' = [res EXCEPT ![th] =
                            CallRet(k, Head(procs[p].pending))]
               /\ procs' = [procs EXCEPT ![p] =
                              [ConsumeLine(@) EXCEPT
                                 !.erred = @ \/ k = "error"]]
  /\ UseToolReturn(th)
  /\ UNCHANGED <<catalog, clients, mu, discLocals, started>>
  /\ UNCHANGED notDiscovering

\* ------------------------------------------------------------- system
Next ==
  \E th \in Threads :
    \/ Initialize(th)
    \/ DiscoverLock(th)
    \/ Connect(th)
    \/ Handshake(th)
    \/ ListRead(th)
    \/ CacheTool(th)
    \/ CacheOwner(th)
    \/ Finish(th)
    \/ RefreshTools(th)
    \/ Close(th)
    \/ ListTools(th)
    \/ \E t \in ToolArgs : UseTool(th, t)
    \/ UseToolSend(th)
    \/ UseToolRead(th)

Spec == Init /\ [][Next]_vars

\* ------------------------------------------------- hanging providers
\* A running provider stops answering: it keeps its pipes open and writes
\* nothing more.
ProviderHangs(p) ==
  /\ procs[p].running
  /\ ~procs[p].hung
  /\ procs' = [procs EXCEPT ![p].hung = TRUE]
  /\ UNCHANGED <<catalog, clients, mu, pc, op, discLocals, useLocals, res,
                 started>>
  /\ UNCHANGED notDiscovering

\* The steps a call in progress takes by itself (the Go scheduler runs every
\* runnable goroutine; nobody is obliged to make a new call).
Proceed(th) ==
  \/ DiscoverLock(th)
  \/ Connect(th)
  \/ Handshake(th)
  \/ ListRead(th)
  \/ CacheTool(th)
  \/ CacheOwner(th)
  \/ Finish(th)
  \/ UseToolSend(th)
  \/ UseToolRead(th)

NextHang ==
  \/ Next
  \/ \E p \in DOMAIN procs : ProviderHangs(p)

\* The proxy with providers that may hang, every call in progress scheduled.
FairHang ==
  Init /\ [][NextHang]_vars /\ \A th \in Threads : WF_vars(Proceed(th))

\* The proxy with well-behaved providers, every call in progress scheduled.
FairSpec ==
  Init /\ [][Next]_vars /\ \A th \in Threads : WF_vars(Proceed(th))

\* ---------------------------------------------------- sequential use
\* A running provider exits by itself: its ends of the pipes are gone.
ProviderExits(p) ==
  /\ procs[p].running
  /\ procs' = [procs EXCEPT ![p].running = FALSE, ![p].hung = FALSE]
  /\ UNCHANGED <<catalog, clients, mu, pc, op, discLocals, useLocals, res,
                 started>>
  /\ UNCHANGED notDiscovering

\* No call is in progress.
Quiet == \A th \in Threads : pc[th] = "idle"

\* One caller making its calls one after the other (each HTTP request sent
\* after the response to the one before), with providers that may exit.
SeqNext ==
  \/ \E th \in Threads : Quiet /\ Initialize(th)
  \/ \E th \in Threads : Quiet /\ RefreshTools(th)
  \/ \E th \in Threads : Quiet /\ Close(th)
  \/ \E th \in Threads : Quiet /\ ListTools(th)
  \/ \E th \in Threads : \E t \in ToolArgs : Quiet /\ UseTool(th, t)
  \/ \E th \in Threads : Proceed(th)
  \/ \E p \in DOMAIN procs : ProviderExits(p)

SpecSeq == Init /\ [][SeqNext]_vars

\* ------------------------------------------------------------ serving
\* The catalog a pass leaves that merged the providers in the order q.
RECURSIVE MergedTools(_)
MergedTools(q) ==
  IF q = <<>> THEN EmptyMap
  ELSE LET m == MergedTools(SubSeq(q, 1, Len(q) - 1))
           s == q[Len(q)]
           m1 == Put(m, ToolsOf(s)[1], Descriptor(ToolsOf(s)[1], s))
       IN Put(m1, ToolsOf(s)[2], Descriptor(ToolsOf(s)[2], s))

\* A provider's session after its handshake and tools/list were answered.
ListedProc(s) ==
  [SpawnedProc(s, 1) EXCEPT !.pending = <<>>, !.ready = TRUE]

\* The proxy as the HTTP server gets it (server.New): Initialize has
\* returned from a pass in which every provider answered, in either order.
InitServing ==
  /\ \E q \in {<<"a", "b">>, <<"b", "a">>} :
       /\ Tools = MergedTools(q)
       /\ ServerMap = [t \in DOMAIN MergedTools(q) |->
                         MergedTools(q)[t].ServerName]
       /\ published = MergedTools(q)
       /\ procs = [i \in 1..2 |-> ListedProc(q[i])]
       /\ clients = [s \in Servers |-> IF q[1] = s THEN 1 ELSE 2]
  /\ LastSync = 1
  /\ mu = [writer |-> 0, readers |-> {}]
  /\ pc = [th \in Threads |-> "idle"]
  /\ op = [th \in Threads |-> "none"]
  /\ arg = [th \in Threads |-> ""]
  /\ todo = [th \in Threads |-> {}]
  /\ cur = [th \in Threads |-> NoServer]
  /\ newc = [th \in Threads |-> NoProc]
  /\ idx = [th \in Threads |-> 0]
  /\ serverName = [th \in Threads |-> NoServer]
  /\ client = [th \in Threads |-> NoProc]
  /\ res = [th \in Threads |-> NoRes]
  /\ okS = [th \in Threads |-> {}]
  /\ failS = [th \in Threads |-> {}]
  /\ merged = [th \in Threads |-> <<>>]
  /\ afterErr = [th \in Threads |-> FALSE]
  /\ started = 0
  /\ fn = "none"
  /\ fin = <<>>
  /\ fout = <<>>
  /\ availTools = [th \in Threads |-> EmptyMap]

\* The calls of the HTTP handlers (ProxyInterface has no Initialize), any
\* number of them in progress at once.
ServingNext ==
  \E th \in Threads :
    \/ RefreshTools(th)
    \/ Close(th)
    \/ ListTools(th)
    \/ \E t \in ToolArgs : UseTool(th, t)
    \/ Proceed(th)

\* The proxy behind the HTTP server; started counts the handlers' calls.
SpecServing == InitServing /\ [][ServingNext]_vars

\* ------------------------------------------- functions on their own
\* Every variable of the proxy.
proxyVars ==
  <<catalog, clients, mu, procs, pc, op, discLocals, useLocals, res, started,
    availTools>>

\* The response lines readResponse may get: one that does not unmarshal, or
\* a JSON object whose "error" key is absent, null or an object and whose
\* "result" key is absent, an object or a string.
Lines ==
  {l \in [parses : BOOLEAN, error : {"absent", "null", "object"},
          result : {"absent", "object", "string"}] :
     l.parses \/ (l.error = "absent" /\ l.result = "absent")}

\* A CallTool that looks for the result before the error.
CallToolOnResultFirst(line) ==
  IF ~line.parses THEN [kind |-> "ReadFailed", payload |-> "none"]
  ELSE IF line.result = "object"
    THEN [kind |-> "Result", payload |-> line.result]
  ELSE IF line.error # "absent"
    THEN [kind |-> "ToolError", payload |-> line.error]
  ELSE [kind |-> "InvalidFormat", payload |-> "none"]

\* CallTool after sendRequest, on the line readResponse scanned: the error
\* of readResponse; "tool error: %v" when response["error"] exists; "invalid
\* response format" when response["result"] is no map; else the result.
CallToolOn(line) ==
  IF ~line.parses THEN [kind |-> "ReadFailed", payload |-> "none"]
  ELSE IF line.error # "absent"
    THEN [kind |-> "ToolError", payload |-> line.error]
  ELSE IF line.result # "object"
    THEN [kind |-> "InvalidFormat", payload |-> "none"]
  ELSE [kind |-> "Result", payload |-> line.result]

\* CallTool is given a response line.
ApplyCallTool ==
  /\ fn = "none"
  /\ \E line \in Lines :
       /\ fn' = "CallTool"
       /\ fin' = line
       /\ fout' = CallToolOn(line)
  /\ UNCHANGED proxyVars

\* The longest "tools" array of a tools/list response.
MaxEntries == 2

\* An element of the "tools" array: something that is no JSON object, or an
\* object whose "name" is absent, a number or a string and whose
\* "description" is absent or a string.
Entries ==
  {[obj |-> FALSE, name |-> "absent", description |-> "absent"]} \cup
  [obj : {TRUE}, name : {"absent", "number", "t"},
   description : {"absent", "d"}]

\* The sequences over S of length 0..n.
SeqsUpTo(S, n) == UNION {[1..k -> S] : k \in 0..n}

\* The tools/list response lines: result absent, no object or an object;
\* in it "tools" absent, no array or an array of entries.
ListLines ==
  {l \in [parses : BOOLEAN, result : {"absent", "string", "object"},
          tools : {"absent", "string", "list"},
          entries : SeqsUpTo(Entries, MaxEntries)] :
     /\ ~l.parses => l.result = "absent"
     /\ l.result # "object" => l.tools = "absent"
     /\ l.tools # "list" => l.entries = <<>>}

\* getString: the string under the key, "" when absent or no string.
getString(v) == IF v \in {"absent", "number"} THEN "" ELSE v

\* The loop of ListTools over the array: an entry that is no object is
\* skipped, any other gives a Tool from getString of name and description.
RECURSIVE ToolsFrom(_)
ToolsFrom(es) ==
  IF es = <<>> THEN <<>>
  ELSE IF ~Head(es).obj THEN ToolsFrom(Tail(es))
  ELSE <<[Name |-> getString(Head(es).name),
          Description |-> getString(Head(es).description)]>>
       \o ToolsFrom(Tail(es))

\* StdioClient.ListTools on the line readResponse scanned.
ListToolsOn(line) ==
  IF ~line.parses THEN [kind |-> "ReadFailed", tools |-> <<>>]
  ELSE IF line.result # "object"
    THEN [kind |-> "InvalidFormat", tools |-> <<>>]
  ELSE IF line.tools # "list" THEN [kind |-> "NoTools", tools |-> <<>>]
  ELSE [kind |-> "Tools", tools |-> ToolsFrom(line.entries)]

\* StdioClient.ListTools is given a response line.
ApplyListTools ==
  /\ fn = "none"
  /\ \E line \in ListLines :
       /\ fn' = "ListTools"
       /\ fin' = line
       /\ fout' = ListToolsOn(line)
  /\ UNCHANGED proxyVars

\* Names and values of environment variables.
EnvNames == {"PATH", "KEY"}
EnvValues == {"0", "1"}

\* The environments: the proxy's own (os.Environ) and the Env map of a
\* server's configuration, which may be empty.
Envs == UNION {[D -> EnvValues] : D \in SUBSET EnvNames}

\* cmd.Env after the loop of NewStdioClient: nil when the map is empty, else
\* one "k=v" entry per key of the map and nothing else.
CmdEnv(env) ==
  [isNil |-> DOMAIN env = {},
   entries |-> {<<k, env[k]>> : k \in DOMAIN env}]

\* The environment cmd.Start gives the child: the parent's own when cmd.Env
\* is nil, else the entries of cmd.Env.
ChildEnv(cmdEnv, inherited) ==
  IF cmdEnv.isNil THEN inherited
  ELSE [k \in {e[1] : e \in cmdEnv.entries} |->
          (CHOOSE e \in cmdEnv.entries : e[1] = k)[2]]

\* NewStdioClient spawns a provider from a process with some environment
\* and a configuration with some Env map.
ApplyNewStdioClient ==
  /\ fn = "none"
  /\ \E inherited \in Envs, env \in Envs :
       /\ fn' = "NewStdioClient"
       /\ fin' = [inherited |-> inherited, env |-> env]
       /\ fout' = ChildEnv(CmdEnv(env), inherited)
  /\ UNCHANGED proxyVars

\* The longest list of names the LLM ranks, and the most candidates.
MaxNames == 6
MaxAvail == 2

\* maxTools of filterToolsByNames.
maxTools == 5

\* Candidate tools: two providers' tools of one name, and another tool.
FnTools ==
  {[Name |-> "a", ServerName |-> "s1"], [Name |-> "a", ServerName |-> "s2"],
   [Name |-> "b", ServerName |-> "s1"]}

\* The names the LLM may answer with (any of them may name no candidate).
FnNames == {"a", "b"}

\* toolMap: for each name of a candidate, the last candidate of that name.
ToolMapOf(availableTools) ==
  [n \in {availableTools[i].Name : i \in DOMAIN availableTools} |->
     availableTools[CHOOSE i \in DOMAIN availableTools :
                      /\ availableTools[i].Name = n
                      /\ \A j \in DOMAIN availableTools :
                           availableTools[j].Name = n => j <= i]]

\* The last loop of filterToolsByNames: the tools of the names that exist in
\* toolMap, in the order of the names.
RECURSIVE FoundTools(_, _)
FoundTools(names, toolMap) ==
  IF names = <<>> THEN <<>>
  ELSE (IF Head(names) \in DOMAIN toolMap
          THEN <<toolMap[Head(names)]>> ELSE <<>>)
       \o FoundTools(Tail(names), toolMap)

\* A filter that does not cut the names to maxTools.
filterToolsByNamesNoLimit(selectedNames, availableTools) ==
  FoundTools(selectedNames, ToolMapOf(availableTools))

filterToolsByNames(selectedNames, availableTools) ==
  FoundTools(IF Len(selectedNames) > maxTools
               THEN SubSeq(selectedNames, 1, maxTools)
               ELSE selectedNames,
             ToolMapOf(availableTools))

\* filterToolsByNames is given ranked names and candidates.
ApplyFilterToolsByNames ==
  /\ fn = "none"
  /\ \E names \in SeqsUpTo(FnNames, MaxNames),
        avail \in SeqsUpTo(FnTools, MaxAvail) :
       /\ fn' = "filterToolsByNames"
       /\ fin' = [names |-> names, avail |-> avail]
       /\ fout' = filterToolsByNames(names, avail)
  /\ UNCHANGED proxyVars

\* The most lines a provider has written when initialize reads.
MaxOut == 2

\* What a line of a provider's output may be: a JSON object with a result,
\* with an error, or with neither; the JSON null; a JSON value that is
\* neither (an array, a number); or no JSON at all.
OutLines == {"result", "error", "object", "null", "array", "garbage"}

\* An Unmarshal that takes a response with an error for a failure.
UnmarshalsUnlessError(line) == line \in {"result", "object", "null"}

\* json.Unmarshal of the line into a map[string]interface{} returns no
\* error: for a JSON object, and for null (the map is left nil).
Unmarshals(line) == line \in {"result", "error", "object", "null"}

\* What NewStdioClient meets: the pipes and cmd.Start fail or not, the write
\* of the initialize request fails or not, and the lines the provider
\* writes.
Spawns ==
  {i \in [start : BOOLEAN, write : BOOLEAN, out : SeqsUpTo(OutLines, MaxOut)] :
     /\ ~i.start => ~i.write
     /\ ~i.write => i.out = <<>>}

\* NewStdioClient from the pipes on: an error of StdinPipe, StdoutPipe or
\* Start is returned as it is; then initialize writes its request and
\* readResponse scans one line and unmarshals it, and on an error of any of
\* the three the client is closed and the error returned.
NewStdioClientOn(i) ==
  IF ~i.start
    THEN [ok |-> FALSE, err |-> "start", consumed |-> 0, closed |-> FALSE]
  ELSE IF ~i.write
    THEN [ok |-> FALSE, err |-> "write", consumed |-> 0, closed |-> TRUE]
  ELSE IF i.out = <<>>
    THEN [ok |-> FALSE, err |-> "read", consumed |-> 0, closed |-> TRUE]
  ELSE IF ~Unmarshals(Head(i.out))
    THEN [ok |-> FALSE, err |-> "unmarshal", consumed |-> 1, closed |-> TRUE]
  ELSE [ok |-> TRUE, err |-> "nil", consumed |-> 1, closed |-> FALSE]

\* NewStdioClient connects to a provider.
ApplyInitialize ==
  /\ fn = "none"
  /\ \E i \in Spawns :
       /\ fn' = "initialize"
       /\ fin' = i
       /\ fout' = NewStdioClientOn(i)
  /\ UNCHANGED proxyVars

NextFn ==
  \/ ApplyInitialize
  \/ ApplyCallTool
  \/ ApplyListTools
  \/ ApplyNewStdioClient
  \/ ApplyFilterToolsByNames

\* The helper functions, each applied once to every input of its (bounded)
\* domain.
SpecFn == Init /\ [][NextFn]_vars

\* ------------------------------------------------------ DiscoverTools
\* What the LLM may rank: nothing, names of the catalog, a name that is not
\* in it.
Rankings == {<<>>, <<"ghost", "shared">>, <<"alpha", "beta">>}

\* A DiscoverTools that also stamps the catalog as refreshed.
DiscoverToolsStamping(th) ==
  /\ Begin(th)
  /\ CanRLock
  /\ availTools' = [availTools EXCEPT ![th] = Tools]
  /\ LastSync' = LastSync + 1
  /\ op' = [op EXCEPT ![th] = "DiscoverTools"]
  /\ pc' = [pc EXCEPT ![th] = "s_select"]
  /\ res' = [res EXCEPT ![th] = NoRes]
  /\ UNCHANGED <<Tools, ServerMap, published, clients, mu, procs, discLocals,
                 useLocals, fnVars>>

\* A DiscoverTools that keeps the read lock for the ranking call.
DiscoverToolsHolding(th) ==
  /\ Begin(th)
  /\ CanRLock
  /\ mu' = [mu EXCEPT !.readers = @ \cup {th}]
  /\ availTools' = [availTools EXCEPT ![th] = Tools]
  /\ op' = [op EXCEPT ![th] = "DiscoverTools"]
  /\ pc' = [pc EXCEPT ![th] = "s_select"]
  /\ res' = [res EXCEPT ![th] = NoRes]
  /\ UNCHANGED <<catalog, clients, procs, discLocals, useLocals, fnVars>>

\* DiscoverTools, under the read lock: every descriptor of the catalog is
\* copied to availableTools, and the lock is released.
DiscoverTools(th) ==
  /\ Begin(th)
  /\ CanRLock
  /\ availTools' = [availTools EXCEPT ![th] = Tools]
  /\ op' = [op EXCEPT ![th] = "DiscoverTools"]
  /\ pc' = [pc EXCEPT ![th] = "s_select"]
  /\ res' = [res EXCEPT ![th] = NoRes]
  /\ UNCHANGED <<catalog, clients, mu, procs, discLocals, useLocals, fnVars>>

\* DiscoverTools, with no lock held: llmProvider.SelectBestTools fails
\* ("failed to select tools"), or ranks names and returns
\* filterToolsByNames of them and the copy, whose order is the map's.
DiscoverSelect(th) ==
  /\ pc[th] = "s_select"
  /\ \/ res' = [res EXCEPT ![th] = Ret("DiscoverTools", "SelectFailed")]
     \/ \E names \in Rankings, q \in Orders(DOMAIN availTools[th]) :
          res' = [res EXCEPT ![th] =
                    [op |-> "DiscoverTools", kind |-> "tools",
                     tools |-> filterToolsByNames(names,
                                 [i \in DOMAIN q |-> availTools[th][q[i]]])]]
  /\ availTools' = [availTools EXCEPT ![th] = EmptyMap]
  /\ pc' = [pc EXCEPT ![th] = "idle"]
  /\ op' = [op EXCEPT ![th] = "none"]
  /\ UNCHANGED <<catalog, clients, mu, procs, discLocals, useLocals, fnVars,
                 started>>

\* The calls of the HTTP handlers, DiscoverTools among them: the reading
\* calls arrive at any time, also while a rebuild is in progress; a refresh or
\* a shutdown is requested when no other call is in progress.
ReadsNext ==
  \E th \in Threads :
    \/ Quiet /\ RefreshTools(th)
    \/ Quiet /\ Close(th)
    \/ ListTools(th)
    \/ \E t \in ToolArgs : UseTool(th, t)
    \/ DiscoverTools(th)
    \/ DiscoverSelect(th)
    \/ Proceed(th)

\* The proxy behind the HTTP server with every handler of ProxyInterface,
\* read by many clients and refreshed or shut down by one.
SpecReads == InitServing /\ [][ReadsNext]_vars

\* Two calls are in readResponse on one client at once.  c.reader is shared
\* and nothing serialises its users: both Scans read the provider's bytes
\* into the same place of the scanner's buffer, and one response line
\* overwrites another (a data race; which line is lost is arbitrary).
ScanRace(p) ==
  /\ procs[p].stdout /\ procs[p].running
  /\ \E th, u \in Threads :
       /\ th # u
       /\ pc[th] = "u_read" /\ client[th] = p
       /\ pc[u] = "u_read" /\ client[u] = p
  /\ \E i \in 1..Len(procs[p].pending) :
       /\ Len(procs[p].pending) >= 2
       /\ procs' = [procs EXCEPT ![p].pending =
                      SubSeq(@, 1, i - 1) \o SubSeq(@, i + 1, Len(@))]
  /\ UNCHANGED <<catalog, clients, mu, pc, op, discLocals, useLocals, res,
                 started>>
  /\ UNCHANGED notDiscovering

\* Every operation of the proxy, DiscoverTools among them, and what two
\* readers of one client may do to each other.
AllNext ==
  \/ Next
  \/ \E th \in Threads : DiscoverTools(th)
  \/ \E th \in Threads : DiscoverSelect(th)
  \/ \E p \in DOMAIN procs : ScanRace(p)

\* The proxy with providers that answer every request and an LLM provider
\* that answers every ranking call, every call in progress scheduled.
FairAll ==
  /\ Init /\ [][AllNext]_vars
  /\ \A th \in Threads : WF_vars(Proceed(th) \/ DiscoverSelect(th))

\* DiscoverTools calls and RefreshTools calls, at any time.
DiscoverNext ==
  \E th \in Threads :
    \/ DiscoverTools(th)
    \/ DiscoverSelect(th)
    \/ RefreshTools(th)
    \/ DiscoverLock(th)
    \/ Connect(th)
    \/ Handshake(th)
    \/ ListRead(th)
    \/ CacheTool(th)
    \/ CacheOwner(th)
    \/ Finish(th)

\* The proxy behind the HTTP server, asked to discover and to refresh.
SpecDiscover == InitServing /\ [][DiscoverNext]_vars

\* ------------------------------------------------------------ helpers
\* The tool names the providers of S expose.
Offered(S) ==
  UNION {{ToolsOf(s)[i] : i \in 1..Len(ToolsOf(s))} : s \in S}

\* The providers of S that expose tool t.
Exposing(t, S) == {s \in S : \E i \in 1..Len(ToolsOf(s)) : ToolsOf(s)[i] = t}

\* The provider of the pass's merge order q whose tools were cached last
\* among those exposing t.
RECURSIVE LastMerged(_, _)
LastMerged(t, q) ==
  IF q = <<>> THEN NoServer
  ELSE IF q[Len(q)] \in Exposing(t, Servers) THEN q[Len(q)]
  ELSE LastMerged(t, SubSeq(q, 1, Len(q) - 1))

\* A pass of discoverAllTools by th has visited every server and is about to
\* return.
PassDone(th) == pc[th] = "d_loop" /\ todo[th] = {}

InRebuild(th) ==
  pc[th] \in {"d_lock", "d_loop", "d_handshake", "d_list", "d_cache", "d_cache2"}

\* The calls in flight on a process: tools/call requests written and not
\* yet answered to a reader.
CallsInFlight(p) ==
  {i \in 1..Len(procs[p].pending) : procs[p].pending[i].method = "tools/call"}

\* The processes p.clients refers to.
ClientProcs == {clients[s] : s \in DOMAIN clients}

\* The provider has no open session: none in p.clients, or a closed one.
SessionClosed(s) == s \notin DOMAIN clients \/ ~IsOpen(procs[clients[s]])

\* StdioClient.Close has left the client fully closed.
FullyClosed(pr) == ~pr.stdin /\ ~pr.stdout /\ ~pr.running

\* A step of UseTool's CallTool by th: its write or its read.
CallToolStep(th) == pc[th] \in {"u_send", "u_read"} /\ pc'[th] # pc[th]

\* ------------------------------------------------------------- claims

\* C1: a UseTool for a tool of the catalog resolves, under the read lock, the
\* owner recorded for the tool and that owner's client, touching no process;
\* its CallTool then writes to and reads from no process but the one spawned
\* for that owner.
C1_RouteReachesOnlyOwner ==
  [][\A th \in Threads :
       /\ \A t \in ToolArgs :
            (UseTool(th, t) /\ pc'[th] = "u_send") =>
              /\ serverName'[th] = ServerMap[t]
              /\ procs[client'[th]].server = ServerMap[t]
              /\ procs' = procs
       /\ CallToolStep(th) =>
            \A p \in DOMAIN procs :
              procs'[p] # procs[p] =>
                (p = client[th] /\ procs[p].server = serverName[th])]_vars

\* C1 witness: a tools/call for "alpha" is in flight on a process of "a".
C1_Witness ==
  \E th \in Threads :
    /\ pc[th] = "u_read"
    /\ arg[th] = "alpha"
    /\ procs[client[th]].server = "a"
    /\ \E i \in CallsInFlight(client[th]) :
         procs[client[th]].pending[i].th = th

\* C2: whenever the write lock is not held, toolCache.Tools and
\* toolCache.ServerMap have the same keys.
C2_SameKeys == mu.writer = 0 => DOMAIN Tools = DOMAIN ServerMap

\* C2 witness: a RefreshTools has returned and left a catalog with tools.
C2_Witness ==
  /\ mu.writer = 0
  /\ DOMAIN Tools # {}
  /\ \E th \in Threads : res[th] = Ret("RefreshTools", "nil")

\* C3: a UseTool for a tool name that is not in the catalog returns the
\* not-found error at once; no process is spawned, written to or read from
\* and p.clients is untouched.
C3_AbsentToolNotFound ==
  [][\A th \in Threads : \A t \in ToolArgs :
       (UseTool(th, t) /\ t \notin DOMAIN ServerMap) =>
         /\ res'[th] = UseRet(t, "NotFound")
         /\ pc'[th] = "idle"
         /\ procs' = procs
         /\ clients' = clients]_vars

\* C3 witness: UseTool returned not-found while a provider session was open.
C3_Witness ==
  /\ \E th \in Threads : res[th] = UseRet("ghost", "NotFound")
  /\ \E p \in DOMAIN procs : IsOpen(procs[p])

\* C4: a UseTool for a tool of the catalog whose provider has no open session
\* returns the unavailable error at once (nothing is sent).
C4_ClosedSessionUnavailable ==
  [][\A th \in Threads : \A t \in ToolArgs :
       (UseTool(th, t) /\ t \in DOMAIN ServerMap /\ SessionClosed(ServerMap[t])) =>
         /\ res'[th] = UseRet(t, "Unavailable")
         /\ pc'[th] = "idle"]_vars

\* C5: when a pass of discoverAllTools is about to return, the catalog holds
\* every tool of every provider that succeeded in the pass, no tool owned by
\* a provider that failed in the pass, and every tool's owner has an open
\* session in p.clients.
C5_PassLeavesItsOwnCatalog ==
  \A th \in Threads :
    (pc[th] = "d_loop" /\ todo[th] = {}) =>
      /\ \A s \in okS[th] : \A i \in 1..Len(ToolsOf(s)) :
           ToolsOf(s)[i] \in DOMAIN ServerMap
      /\ \A t \in DOMAIN ServerMap : ServerMap[t] \notin failS[th]
      /\ \A t \in DOMAIN ServerMap : ~SessionClosed(ServerMap[t])

\* C6: a ListTools observes the catalog as the last completed rebuild (or the
\* construction) left it, never a state in between.
C6_ListSeesCompleteCatalog ==
  [][\A th \in Threads :
       ListTools(th) =>
         res'[th].tools = {published[t] : t \in DOMAIN published}]_vars

\* C7: no process has two tools/call requests in flight.
C7_OneCallInFlight ==
  \A p \in DOMAIN procs : Cardinality(CallsInFlight(p)) <= 1

\* C8: when no rebuild is in progress, every running process is one that
\* p.clients refers to.
C8_NoLeakedSession ==
  (\A th \in Threads : ~InRebuild(th)) =>
    \A p \in DOMAIN procs : procs[p].running => p \in ClientProcs

\* C9: no provider has two open sessions.
C9_OneSessionPerProvider ==
  \A s \in Servers :
    Cardinality({p \in DOMAIN procs :
                   procs[p].server = s /\ IsOpen(procs[p])}) <= 1

\* C10: when Close returns, no spawned process is running.
C10_CloseKillsAll ==
  [][\A th \in Threads :
       Close(th) => \A p \in DOMAIN procs' : ~procs'[p].running]_vars

\* C11: every call in progress eventually returns, even when a provider has
\* stopped answering (the caller's deadline ends the wait).
C11_EveryCallReturns ==
  \A th \in Threads : (pc[th] # "idle") ~> (pc[th] = "idle")

\* C12: a UseTool waiting on a provider that has stopped answering ends with
\* the timeout error, that provider's session closed and none of its tools
\* left in the catalog ListTools reads.
C12_TimeoutTearsDown ==
  \A th \in Threads : \A s \in Servers :
    (pc[th] = "u_read" /\ serverName[th] = s /\ procs[client[th]].hung)
      ~> (/\ pc[th] = "idle"
          /\ res[th] = UseRet("", "Timeout")
          /\ SessionClosed(s)
          /\ \A t \in DOMAIN Tools : Tools[t].ServerName # s)

\* C13: while a rebuild is starting a provider or waiting for its handshake
\* or tools/list response, the mutex can be read-locked (a ListTools or a
\* UseTool lookup can go through).
C13_ReadsDuringSpawn ==
  \A th \in Threads :
    pc[th] \in {"d_loop", "d_handshake", "d_list"} => CanRLock

\* C14: a RefreshTools pass in which the providers answer as they did in the
\* last completed pass leaves the catalog that pass left, owners included.
C14_SecondPassSameCatalog ==
  \A th \in Threads :
    (/\ PassDone(th)
     /\ op[th] = "RefreshTools"
     /\ LastSync > 0
     /\ DOMAIN published = Offered(okS[th]))
      => Tools = published

\* C15: when a pass is about to return in which two providers exposing the
\* same tool name both succeeded, the catalog's entry for the name is the
\* descriptor of the provider merged last, that provider is its owner, and
\* the client UseTool would dispatch to is the one of that provider.
C15_LastMergedOwns ==
  \A th \in Threads : \A t \in ToolArgs :
    (PassDone(th) /\ Cardinality(Exposing(t, okS[th])) = 2) =>
      LET w == LastMerged(t, merged[th]) IN
        /\ Tools[t] = Descriptor(t, w)
        /\ ServerMapGet(t) = [v |-> w, ok |-> TRUE]
        /\ ClientsGet(w).ok
        /\ procs[ClientsGet(w).v].server = w

\* C15 witness: a pass that merged b and then a is about to return.
C15_Witness ==
  \E th \in Threads :
    /\ PassDone(th)
    /\ merged[th] = <<"b", "a">>
    /\ ServerMap["shared"] = "a"

\* C16: a UseTool that reads an error response returns the tool error with
\* that response's payload and leaves the session open and p.clients as it
\* is; a later UseTool on that session writes a new request and returns the
\* response to that request.
C16_ErrorLeavesSessionUsable ==
  [][\A th \in Threads :
       LET p == client[th] IN
         /\ (UseToolRead(th) /\ res'[th].kind = "ToolError") =>
              /\ res'[th].line = "error"
              /\ IsOpen(procs'[p])
              /\ clients' = clients
         /\ (UseToolSend(th) /\ procs[p].erred /\ IsOpen(procs[p])) =>
              procs'[p].pending = Append(procs[p].pending, OwnRequest(th))
         /\ (UseToolRead(th) /\ afterErr[th] /\ procs'[p] # procs[p]) =>
              res'[th].answers = [th |-> th, tool |-> arg[th]]]_vars

\* C17: a UseTool that found its client writes its tools/call request once
\* (the lookup and the read write nothing, and the read ends the call), and
\* it returns a result only when it has read a response line with a result:
\* a failed write, a failed read, a malformed line and an error response are
\* all returned as errors.
C17_OneRequestNoSilentFailure ==
  [][\A th \in Threads :
       LET p == client[th] IN
         /\ \A t \in ToolArgs : UseTool(th, t) => procs' = procs
         /\ (UseToolSend(th) /\ pc'[th] = "u_read") =>
              procs' = [procs EXCEPT ![p].pending = Append(@, OwnRequest(th))]
         /\ (UseToolSend(th) /\ pc'[th] = "idle") =>
              procs' = procs /\ res'[th].kind = "ExecFailed"
         /\ UseToolRead(th) =>
              /\ pc'[th] = "idle"
              /\ \A q \in DOMAIN procs :
                   Len(procs'[q].pending) <= Len(procs[q].pending)
              /\ res'[th].kind \in {"Result", "ToolError", "ExecFailed"}
              /\ res'[th].kind = "Result" =>
                   procs'[p] # procs[p] /\ res'[th].line = "result"]_vars

\* C17 witness: a UseTool has read a malformed response and returned the
\* error, while the session it called is still open.
C17_Witness ==
  \E th \in Threads :
    /\ res[th] = CallRet("malformed", Request(3, "tools/call", th, "alpha"))
    /\ res[th].kind = "ExecFailed"
    /\ \E p \in DOMAIN procs : procs[p].server = "a" /\ IsOpen(procs[p])

\* C18: when the handshake of a connect fails, the process NewStdioClient
\* started is killed and its pipes are closed by the time the error is
\* returned (the server is skipped), and p.clients does not hold it.
C18_FailedHandshakeKills ==
  [][\A th \in Threads :
       (Handshake(th) /\ pc'[th] = "d_loop") =>
         /\ FullyClosed(procs'[newc[th]])
         /\ newc[th] \notin {clients'[s] : s \in DOMAIN clients'}
         /\ cur[th] \in failS'[th]]_vars

\* C18 witness: a process whose handshake failed (NewStdioClient never
\* returned its client) is closed, and the pass goes on.
C18_Witness ==
  \E th \in Threads : \E p \in DOMAIN procs :
    /\ pc[th] = "d_loop"
    /\ procs[p].server \in failS[th]
    /\ ~procs[p].ready
    /\ FullyClosed(procs[p])

\* C19: Close closes every client of p.clients, whichever of them fail to
\* close, and returns nil.
C19_CloseVisitsEveryClient ==
  [][\A th \in Threads :
       Close(th) =>
         /\ \A s \in DOMAIN clients : FullyClosed(procs'[clients[s]])
         /\ res'[th].kind = "nil"]_vars

\* C19 witness: a Close has logged a failure for one client and killed the
\* process of another.
C19_Witness ==
  \E th \in Threads :
    /\ res[th].op = "Close"
    /\ res[th].failed # {}
    /\ res[th].killed # {}
    /\ \A s \in DOMAIN clients : FullyClosed(procs[clients[s]])

\* C20: wherever StdioClient.Close is called (Close's and RefreshTools'
\* loops, NewStdioClient after a failed handshake, discoverAllTools after a
\* failed tools/list) it leaves the client fully closed, and a client that
\* was fully closed already is left exactly as it was.
C20_ClientCloseIdempotent ==
  [][\A th \in Threads :
       /\ (Close(th) \/ RefreshTools(th)) =>
            \A s \in DOMAIN clients :
              /\ FullyClosed(procs'[clients[s]])
              /\ FullyClosed(procs[clients[s]]) =>
                   procs'[clients[s]] = procs[clients[s]]
       /\ ((Handshake(th) \/ ListRead(th)) /\ pc'[th] = "d_loop") =>
            FullyClosed(procs'[newc[th]])]_vars

\* C20 witness: a Close found every client of p.clients closed already and
\* closed each of them again.
C20_Witness ==
  \E th \in Threads :
    /\ res[th].op = "Close"
    /\ res[th].killed = {}
    /\ DOMAIN clients # {}
    /\ \A s \in DOMAIN clients : FullyClosed(procs[clients[s]])

\* C21 (as claimed): on a response line that parses, CallTool fails with the
\* tool error holding the error payload exactly when the line has an error
\* field, and otherwise returns the line's result field.
C21_ErrorElseResult ==
  (fn = "CallTool" /\ fin.parses) =>
    IF fin.error # "absent"
      THEN fout = [kind |-> "ToolError", payload |-> fin.error]
      ELSE fout = [kind |-> "Result", payload |-> fin.result]

\* C21 (amended): on a response line that parses, CallTool fails with the
\* tool error holding the error payload exactly when the line has an error
\* key (null included); otherwise it returns the result when that is a JSON
\* object and fails with "invalid response format" when the result is absent
\* or not an object.
C21_ErrorElseObjectResult ==
  (fn = "CallTool" /\ fin.parses) =>
    /\ fout.kind = "ToolError" <=> fin.error # "absent"
    /\ fout.kind = "ToolError" => fout.payload = fin.error
    /\ fin.error = "absent" =>
         IF fin.result = "object"
           THEN fout = [kind |-> "Result", payload |-> fin.result]
           ELSE fout.kind = "InvalidFormat"

\* C21 witness: CallTool was given a line with no error and a result that is
\* a string, and failed.
C21_Witness ==
  /\ fn = "CallTool"
  /\ fin = [parses |-> TRUE, error |-> "absent", result |-> "string"]
  /\ fout.kind = "InvalidFormat"

\* C22: StdioClient.ListTools fails when the result is absent or is not a
\* list of objects each with a name and a description, and what it returns
\* holds no descriptor made of an entry without them (so as many
\* descriptors, all named and described, as entries with both).
C22_SchemaErrorOrCleanTools ==
  (fn = "ListTools" /\ fin.parses) =>
    /\ ~(/\ fin.tools = "list"
          /\ \A i \in 1..Len(fin.entries) :
               /\ fin.entries[i].obj
               /\ fin.entries[i].name = "t"
               /\ fin.entries[i].description = "d")
         => fout.kind \in {"InvalidFormat", "NoTools"}
    /\ \A i \in 1..Len(fout.tools) :
         fout.tools[i].Name # "" /\ fout.tools[i].Description # ""

\* C23: the request ids of a session increase: of two requests written to
\* one provider and not yet answered, the later has the greater id.
C23_IdsIncrease ==
  \A p \in DOMAIN procs :
    \A i, j \in 1..Len(procs[p].pending) :
      i < j => procs[p].pending[i].id < procs[p].pending[j].id

\* C24: the provider is spawned with the inherited environment with the
\* overrides applied on top: every override as given, and every inherited
\* variable that is not overridden as inherited, nothing else.
C24_InheritedPlusOverrides ==
  fn = "NewStdioClient" =>
    fout = [k \in DOMAIN fin.inherited \cup DOMAIN fin.env |->
              IF k \in DOMAIN fin.env THEN fin.env[k] ELSE fin.inherited[k]]

\* C25: ListTools returns exactly the descriptors the catalog holds at one
\* instant at which no rebuild is between taking and releasing the write
\* lock: one descriptor per tool name of the catalog, none missing and none
\* extra, also when a rebuild runs concurrently.
C25_ListIsCatalogAtOneInstant ==
  [][\A th \in Threads :
       ListTools(th) =>
         /\ \A u \in Threads : InRebuild(u) => pc[u] = "d_lock"
         /\ res'[th].tools = {Tools[t] : t \in DOMAIN Tools}
         /\ \A t \in DOMAIN Tools :
              Cardinality({d \in res'[th].tools : d.Name = t}) = 1
         /\ \A d \in res'[th].tools : d.Name \in DOMAIN Tools]_vars

\* C25 witness: ListTools has returned a catalog that is not empty while
\* another thread is in a rebuild.
C25_Witness ==
  \E th, u \in Threads :
    /\ res[th].op = "ListTools"
    /\ res[th].tools # {}
    /\ InRebuild(u)

\* C27: filterToolsByNames returns at most 5 tools, each of them one of the
\* candidates, in the order of the ranked names: the names of the result
\* are a prefix of the ranked names with those left out that name no
\* candidate.
C27_AtMostFiveCandidatesInRankOrder ==
  fn = "filterToolsByNames" =>
    /\ Len(fout) <= 5
    /\ \A i \in 1..Len(fout) :
         \E j \in 1..Len(fin.avail) : fout[i] = fin.avail[j]
    /\ \E k \in 0..Len(fin.names) :
         [i \in 1..Len(fout) |-> fout[i].Name] =
           SelectSeq(SubSeq(fin.names, 1, k),
                     LAMBDA n : \E j \in 1..Len(fin.avail) :
                                  fin.avail[j].Name = n)

\* C27 witness: more than 5 names were ranked, one of them naming no
\* candidate, and 5 tools came back.
C27_Witness ==
  /\ fn = "filterToolsByNames"
  /\ Len(fin.names) > 5
  /\ \E i \in 1..Len(fin.names) :
       \A j \in 1..Len(fin.avail) : fin.avail[j].Name # fin.names[i]
  /\ Len(fout) = 5

\* C26: a step of ListTools, DiscoverTools or UseTool leaves the catalog's
\* mappings, the last-refresh timestamp and the session map as they are;
\* a step that changes the catalog is RefreshTools clearing it or a step of
\* the rebuild that holds the write lock.
C26_ReadsLeaveCatalog ==
  [][/\ (\E th \in Threads :
           \/ ListTools(th)
           \/ DiscoverTools(th)
           \/ DiscoverSelect(th)
           \/ \E t \in ToolArgs : UseTool(th, t)
           \/ UseToolSend(th)
           \/ UseToolRead(th))
        => UNCHANGED <<Tools, ServerMap, LastSync, clients>>
     /\ <<Tools, ServerMap, LastSync>>' # <<Tools, ServerMap, LastSync>>
        => \E th \in Threads :
             \/ RefreshTools(th)
             \/ mu.writer = th /\ InRebuild(th)]_vars

\* C26 witness: DiscoverTools has returned tools, and the last of the calls
\* made, a RefreshTools, is caching tools in the catalog.
C26_Witness ==
  \E th, u \in Threads :
    /\ res[th].op = "DiscoverTools" /\ res[th].kind = "tools"
    /\ res[th].tools # <<>>
    /\ op[u] = "RefreshTools" /\ pc[u] = "d_loop"
    /\ Tools # EmptyMap
    /\ started = MaxOps

\* C28: a UseTool that reads a response line returns the response to its own
\* request: the line answers the request this call wrote, for this call's
\* tool.
C28_OwnResponse ==
  [][\A th \in Threads :
       (UseToolRead(th) /\ "answers" \in DOMAIN res'[th]) =>
         res'[th].answers = [th |-> th, tool |-> arg[th]]]_vars

\* C29: the session UseTool resolved under the read lock is still open when
\* CallTool writes the request to it: no step of a RefreshTools or a Close
\* closes an open session that a UseTool has resolved and not yet written
\* to.
C29_ResolvedSessionStaysOpen ==
  [][\A th \in Threads :
       (pc[th] = "u_send" /\ IsOpen(procs[client[th]])) =>
         IsOpen(procs'[client[th]])]_vars

\* C30: whenever no rebuild holds the write lock, the owner of every tool
\* name of the catalog has an entry in the session map.
C30_OwnersHaveSessions ==
  mu.writer = 0 =>
    \A t \in DOMAIN ServerMap : ServerMap[t] \in DOMAIN clients

\* C32: whenever the write lock is not held, the descriptor stored for a
\* tool name t has the name t, its ServerName is the owner ServerMap records
\* for t, and that owner is one of the configured servers.
C32_TagIsOwner ==
  mu.writer = 0 =>
    \A t \in DOMAIN Tools :
      /\ Tools[t].Name = t
      /\ t \in DOMAIN ServerMap
      /\ Tools[t].ServerName = ServerMap[t]
      /\ ServerMap[t] \in Servers

\* C32 witness: a catalog is readable in which both providers' tools were
\* merged and b owns the name both expose.
C32_Witness ==
  /\ mu.writer = 0
  /\ DOMAIN Tools = {"alpha", "beta", "shared"}
  /\ Tools["shared"].ServerName = "b"
  /\ Tools["alpha"].ServerName = "a"

\* C33 (as claimed): NewStdioClient succeeds exactly when the process
\* spawns, the request is written and the first output line is there and
\* parses as a JSON object, whatever the object holds; it then has consumed
\* exactly one line.
C33_SucceedsIffObject ==
  fn = "initialize" =>
    /\ fout.ok <=>
         /\ fin.start /\ fin.write /\ fin.out # <<>>
         /\ Head(fin.out) \in {"result", "error", "object"}
    /\ fout.ok => fout.consumed = 1

\* C33 (amended): NewStdioClient succeeds exactly when the process spawns,
\* the request is written and the first output line is there and is a JSON
\* object, whatever it holds, or the JSON null; it fails on a first line
\* that is any other JSON value or no JSON; when it succeeds it has consumed
\* exactly one line.
C33_SucceedsIffObjectOrNull ==
  fn = "initialize" =>
    /\ fout.ok <=>
         /\ fin.start /\ fin.write /\ fin.out # <<>>
         /\ Head(fin.out) \in {"result", "error", "object", "null"}
    /\ fout.ok => fout.consumed = 1

\* C33 witness: a provider answered the handshake with an error object and
\* wrote a second line; NewStdioClient succeeded and consumed one line.
C33_Witness ==
  /\ fn = "initialize"
  /\ Len(fin.out) = 2
  /\ Head(fin.out) = "error"
  /\ fout.ok
  /\ fout.consumed = 1

\* C34: while its ranking call is outstanding DiscoverTools holds no lock,
\* so that a RefreshTools can take the write lock and complete; the copy it
\* ranks is the catalog as it was under the read lock, and the tools it
\* returns are all of that copy, whatever the catalog has become.
C34_RankingHoldsNoLock ==
  /\ [](\A th \in Threads :
          pc[th] = "s_select" => th \notin mu.readers /\ mu.writer # th)
  /\ [][\A th \in Threads :
          /\ DiscoverTools(th) => availTools'[th] = Tools
          /\ (DiscoverSelect(th) /\ res'[th].kind = "tools") =>
               \A i \in 1..Len(res'[th].tools) :
                 /\ res'[th].tools[i].Name \in DOMAIN availTools[th]
                 /\ res'[th].tools[i] =
                      availTools[th][res'[th].tools[i].Name]]_vars

\* C34 witness: two calls were made, a DiscoverTools that copied the full
\* catalog and a RefreshTools; the RefreshTools has returned, leaving
\* another catalog, and the ranking call is still outstanding.
C34_Witness ==
  \E th, u \in Threads :
    /\ started = 2
    /\ pc[th] = "s_select"
    /\ DOMAIN availTools[th] = {"alpha", "beta", "shared"}
    /\ res[u] = Ret("RefreshTools", "nil")
    /\ Tools # availTools[th]

\* C31: a call that has returned, that waits for the write lock, or that is
\* outside its critical section (in CallTool, in the ranking call) holds no
\* lock; the write lock is released only by the rebuild that holds it, when
\* it returns; and with providers that answer every request every call made
\* returns.
C31_LockDisciplineAndTermination ==
  /\ [](\A th \in Threads :
          pc[th] \in {"idle", "d_lock", "u_send", "u_read", "s_select"} =>
            mu.writer # th /\ th \notin mu.readers)
  /\ [][\A th \in Threads :
          (mu.writer = th /\ mu'.writer # th) =>
            Finish(th) /\ mu'.writer = 0]_vars
  /\ \A th \in Threads : (pc[th] # "idle") ~> (pc[th] = "idle")

====
